---- MODULE Spec2Model ----
(***************************************************************************)
(* Netify: an Express server that keeps user accounts in a MySQL table     *)
(* (routes/auth) and proxies the OMDb movie API (routes/movies).           *)
(*                                                                         *)
(* SpecAuth    - concurrent register / login requests against the store.   *)
(* SpecBatch   - one fetchMoviesByTitles call, its provider calls settling *)
(*               in any order.                                             *)
(* SpecFormat  - formatMovie applied to provider records whose fields are  *)
(*               absent, the sentinel 'N/A', or a value.                   *)
(* SpecCatalog - one request to a catalog endpoint (the four lists, search *)
(*               and detail), for each value of the provider API key.      *)
(* SpecClient  - the browser client's initApp: the health checks, the      *)
(*               waits between them, the loading of the three lists.       *)
(* FairServe   - catalog and account requests served one at a time, every  *)
(*               provider call and store statement eventually settling.    *)
(* SpecStartup - startServer: the connectivity test, the creation of the   *)
(*               table, listen; then account requests, one at a time.      *)
(***************************************************************************)
EXTENDS Integers, Sequences, FiniteSets, TLC

VARIABLES
    users,       \* the rows of the `users` table, in insertion order
    nextId,      \* the table's AUTO_INCREMENT counter
    areq,        \* per connection slot: the register/login request in flight
    returned201, \* the register requests answered 201: email, password, userId
    bPc,         \* fetchMoviesByTitles: "idle", "waiting", "returned", "threw"
    bTitles,     \* its argument
    bCalls,      \* the provider calls it has issued (their query parameters)
    bHttp,       \* per call: what the provider answered, "pending" before
    bPromise,    \* per call: the state of the callback's promise
    bLate,       \* whether some call settled before a call issued earlier
    bResult,     \* the value returned
    apiKey,      \* OMDB_API_KEY
    cPc,         \* catalog request: "idle", "list", "search", "details", "detail", "done"
    cReq,        \* the endpoint and its inputs
    cCalls,      \* the provider calls issued for the request (query parameters)
    cHttp,       \* what the provider answered to each call, in the calls' order
    cData,       \* searchData
    cRes,        \* the answer
    fPc,         \* formatMovie: "idle", "done"
    fMovie,      \* its argument
    fOut,        \* the object it returned
    sPc,         \* the process: "boot", "testing", "initializing", "listening", "exited"
    sConn,       \* the connectivity test: "untested", "ok", "failed"
    sInit,       \* CREATE TABLE IF NOT EXISTS: "none", "ok", "failed"
    sTable,      \* whether the users table exists
    sExit,       \* the code of process.exit, Null while the process runs
    kPc,         \* initApp: "init", "checking", "sleeping", "loading", "done"
    kRetries,    \* retries
    kHealthy,    \* isHealthy
    kResults,    \* what the health requests have settled with, in order
    kSleeps,     \* the number of one-second waits started
    kLoads,      \* per list loader: "none", "pending", or how it ended
    kError       \* the message showError has displayed, Null if none

authVars == <<users, nextId, areq, returned201>>

batchVars == <<bPc, bTitles, bCalls, bHttp, bPromise, bLate, bResult>>

catVars == <<apiKey, cPc, cReq, cCalls, cHttp, cData, cRes>>

fmtVars == <<fPc, fMovie, fOut>>

startVars == <<sPc, sConn, sInit, sTable, sExit>>

clientVars == <<kPc, kRetries, kHealthy, kResults, kSleeps, kLoads, kError>>

vars == <<authVars, batchVars, catVars, fmtVars, startVars, clientVars>>

\* what the steps of one component leave alone
notAuth == <<batchVars, catVars, fmtVars, startVars, clientVars>>

notBatch == <<authVars, catVars, fmtVars, startVars, clientVars>>

notCatalog == <<authVars, batchVars, fmtVars, startVars, clientVars>>

notFormat == <<authVars, batchVars, catVars, startVars, clientVars>>

notStartup == <<authVars, batchVars, catVars, fmtVars, clientVars>>

notClient == <<authVars, batchVars, catVars, fmtVars, startVars>>

(***************************************************************************)
(* JavaScript values of the request bodies.  Strings are sequences of      *)
(* one-character strings, so that the regular expression and .length are   *)
(* computed and not assumed.                                               *)
(***************************************************************************)
Undefined == [t |-> "undefined"]
Null == [t |-> "null"]
Str(cs) == [t |-> "string", v |-> cs]

\* Str: a string whose characters the code looks at; Txt: one it only passes on.
Txt(s) == [t |-> "text", v |-> s]

\* !x for a value that is undefined, null or a string
Falsy(x) ==
    \/ x.t = "undefined"
    \/ x.t = "null"
    \/ (x.t = "string" /\ x.v = <<>>)
    \/ (x.t = "text" /\ x.v = "")

\* x || null
OrNull(x) == IF Falsy(x) THEN Null ELSE x

\* Number of connection slots, i.e. of requests that may be in flight at once.
MaxSlots == 2

Slots == 1..MaxSlots

\* const SALT_ROUNDS = 10
SALT_ROUNDS == 10

\* The salts bcrypt may draw for one hash.  compare() reads the salt back from
\* the hash, so one representative salt is kept.
Salts == {"s1"}

(***************************************************************************)
(* bcryptjs.  hash(password, rounds) draws a salt and returns a string     *)
(* that carries the rounds, the salt and a one-way digest of (salt,        *)
(* password); compare(password, hash) recomputes the digest with the       *)
(* stored salt and rounds.  The digest is kept symbolic and injective for  *)
(* passwords within bcrypt's input length.                                 *)
(***************************************************************************)
Digest(password, salt, rounds) == <<"bcrypt", rounds, salt, password>>

BcryptHash(password, rounds, salt) ==
    [rounds |-> rounds, salt |-> salt, digest |-> Digest(password, salt, rounds)]

BcryptCompare(password, hash) ==
    Digest(password, hash.salt, hash.rounds) = hash.digest

(***************************************************************************)
(* Validation of the register body.                                        *)
(***************************************************************************)
Whitespace == {" ", "\t", "\n"}

\* /^[^\s@]+@[^\s@]+\.[^\s@]+$/.test(cs)
EmailRegexTest(cs) ==
    \E i, j \in 1..Len(cs) :
        /\ 1 < i /\ i + 1 < j /\ j < Len(cs)
        /\ cs[i] = "@"
        /\ cs[j] = "."
        /\ \A k \in (1..Len(cs)) \ {i} : cs[k] \notin Whitespace \cup {"@"}

\* password.length < 6
MIN_PASSWORD_LENGTH == 6

Resp(status, success, message) ==
    [status |-> status, body |-> [success |-> success, message |-> message]]

RegisterMissingFields(b) ==
    Falsy(b.username) \/ Falsy(b.email) \/ Falsy(b.password)

RegisterBadEmail(b) == ~EmailRegexTest(b.email.v)

RegisterShortPassword_NoCheck(b) == FALSE

RegisterShortPassword(b) == Len(b.password.v) < MIN_PASSWORD_LENGTH

\* The 400 answer of register's validation, or Null when the body passes.
RegisterValidate(b) ==
    IF RegisterMissingFields(b)
    THEN Resp(400, FALSE, "Username, email, and password are required")
    ELSE IF RegisterBadEmail(b)
    THEN Resp(400, FALSE, "Please provide a valid email address")
    ELSE IF RegisterShortPassword(b)
    THEN Resp(400, FALSE, "Password must be at least 6 characters long")
    ELSE Null

\* The 400 answer of login's validation, or Null when the body passes.
LoginValidate(b) ==
    IF Falsy(b.email) \/ Falsy(b.password)
    THEN Resp(400, FALSE, "Email and password are required")
    ELSE Null

(***************************************************************************)
(* routes/movies: the provider's payloads.  A payload is the JSON object   *)
(* of response.data; a field the provider left out is Undefined.           *)
(***************************************************************************)
PayloadFields ==
    {"Response", "Error", "Title", "imdbID", "Plot", "Poster", "Year",
     "imdbRating", "imdbVotes", "Genre", "Runtime", "Director", "Actors",
     "Search", "totalResults"}

EmptyPayload == [f \in PayloadFields |-> Undefined]

NA == Txt("N/A")

NAChars == Str(<<"N", "/", "A">>)

\* x === 'N/A'
IsNA(x) == x = NA \/ x = NAChars

Digits == {"0", "1", "2", "3", "4", "5", "6", "7", "8", "9"}

DigitVal(c) ==
    CASE c = "0" -> 0 [] c = "1" -> 1 [] c = "2" -> 2 [] c = "3" -> 3
      [] c = "4" -> 4 [] c = "5" -> 5 [] c = "6" -> 6 [] c = "7" -> 7
      [] c = "8" -> 8 [] c = "9" -> 9

NaN == [t |-> "NaN"]

Num(n) == [t |-> "number", v |-> n]

\* the number of leading characters of cs, from position i on, that are in set
RECURSIVE Run(_, _, _)
Run(cs, i, set) ==
    IF i <= Len(cs) /\ cs[i] \in set THEN 1 + Run(cs, i + 1, set) ELSE 0

\* the value of a sequence of decimal digits
RECURSIVE DecimalValue(_)
DecimalValue(ds) ==
    IF ds = <<>> THEN 0
    ELSE 10 * DecimalValue(SubSeq(ds, 1, Len(ds) - 1)) + DigitVal(ds[Len(ds)])

\* s.replace(/,/g, '')
StripCommas(cs) == SelectSeq(cs, LAMBDA c : c # ",")

\* parseInt(cs): leading white space, a sign, then the longest run of digits;
\* NaN when there is none
ParseInt(cs) ==
    LET ws == Run(cs, 1, Whitespace)
        sign == IF ws < Len(cs) /\ cs[ws + 1] \in {"+", "-"} THEN 1 ELSE 0
        from == ws + sign + 1
        n == Run(cs, from, Digits)
        magnitude == DecimalValue(SubSeq(cs, from, from + n - 1))
    IN  IF n = 0 THEN NaN
        ELSE Num(IF sign = 1 /\ cs[ws + 1] = "-" THEN 0 - magnitude ELSE magnitude)

\* parseFloat(cs): leading white space, a sign, digits, a point, digits; the
\* number is kept as the literal that was read; NaN when no digit was read
ParseFloat(cs) ==
    LET ws == Run(cs, 1, Whitespace)
        sign == IF ws < Len(cs) /\ cs[ws + 1] \in {"+", "-"} THEN 1 ELSE 0
        from == ws + sign + 1
        whole == Run(cs, from, Digits)
        point == IF from + whole <= Len(cs) /\ cs[from + whole] = "." THEN 1 ELSE 0
        frac == IF point = 1 THEN Run(cs, from + whole + 1, Digits) ELSE 0
        last == IF frac > 0 THEN from + whole + frac ELSE from + whole - 1
    IN  IF whole = 0 /\ frac = 0 THEN NaN
        ELSE Num(SubSeq(cs, ws + 1, last))

NO_DESCRIPTION == Txt("No description available.")

\* movie.Poster && movie.Poster !== 'N/A' ? movie.Poster : null   (posterPath)
PosterPath(movie) ==
    IF ~Falsy(movie.Poster) /\ ~IsNA(movie.Poster) THEN movie.Poster ELSE Null

BackdropPath_Raw(movie) == IF Falsy(movie.Poster) THEN Null ELSE movie.Poster

\* movie.Poster && movie.Poster !== 'N/A' ? movie.Poster : null   (backdropPath)
BackdropPath(movie) ==
    IF ~Falsy(movie.Poster) /\ ~IsNA(movie.Poster) THEN movie.Poster ELSE Null

\* formatMovie(movie)
FormatMovie(movie) ==
    LET rating == IF ~Falsy(movie.imdbRating) /\ ~IsNA(movie.imdbRating)
                  THEN ParseFloat(movie.imdbRating.v) ELSE Null
        year == IF ~Falsy(movie.Year) /\ ~IsNA(movie.Year) THEN movie.Year ELSE Null
    IN  [id |-> IF Falsy(movie.imdbID) THEN movie.Title ELSE movie.imdbID,
         title |-> movie.Title,
         overview |-> IF ~Falsy(movie.Plot) /\ ~IsNA(movie.Plot)
                      THEN movie.Plot ELSE NO_DESCRIPTION,
         posterPath |-> PosterPath(movie),
         backdropPath |-> BackdropPath(movie),
         releaseDate |-> year,
         rating |-> rating,
         voteCount |-> IF ~Falsy(movie.imdbVotes)
                       THEN ParseInt(StripCommas(movie.imdbVotes.v)) ELSE Null,
         genre |-> IF Falsy(movie.Genre) THEN Txt("") ELSE movie.Genre,
         runtime |-> movie.Runtime,
         director |-> movie.Director,
         actors |-> movie.Actors]

(***************************************************************************)
(* formatMovie on its own: the provider's records are JSON objects whose   *)
(* fields are strings; each field is absent, the sentinel, or a value.     *)
(***************************************************************************)
\* a field the code passes on or tests against the sentinel
TextValues(v) == {Undefined, NA, Txt(v)}

\* imdbRating: absent, the sentinel, a decimal, and a string that is no number
RatingValues == {Undefined, NAChars, Str(<<"8", ".", "8">>), Str(<<"x">>)}

\* imdbVotes: absent, the sentinel, a grouped integer, and the empty string
VoteValues == {Undefined, NAChars, Str(<<"2", ",", "1", "0", "0">>), Str(<<>>)}

ProviderRecords ==
    { [EmptyPayload EXCEPT
          !.Response = Txt("True"), !.Title = Txt("Inception"),
          !.imdbID = id, !.Plot = plot, !.Poster = poster, !.Year = year,
          !.imdbRating = rating, !.imdbVotes = votes, !.Genre = genre,
          !.Runtime = runtime, !.Director = director, !.Actors = actors] :
        id \in {Undefined, Txt("tt1375666")},
        plot \in TextValues("A plot."),
        poster \in TextValues("http://img/p.jpg"),
        year \in TextValues("2010"),
        rating \in RatingValues,
        votes \in VoteValues,
        genre \in TextValues("Action"),
        runtime \in TextValues("148 min"),
        director \in TextValues("C. Nolan"),
        actors \in TextValues("X, Y") }

FormatAtRest ==
    /\ fPc = "idle"
    /\ fMovie = Null
    /\ fOut = Null

\* formatMovie(movie) is called with a provider record and returns
FormatApply ==
    /\ fPc = "idle"
    /\ \E movie \in ProviderRecords :
          /\ fMovie' = movie
          /\ fOut' = FormatMovie(movie)
    /\ fPc' = "done"
    /\ UNCHANGED notFormat

\* the object is garbage; the next call may come
FormatReset ==
    /\ fPc = "done"
    /\ fPc' = "idle"
    /\ fMovie' = Null
    /\ fOut' = Null
    /\ UNCHANGED notFormat

(***************************************************************************)
(* fetchFromOMDB.  The provider's answer to one call is a transport        *)
(* failure or a payload; the result is a value returned or an error thrown.*)
(***************************************************************************)
TransportFailure == [kind |-> "transport"]

Http(data) == [kind |-> "http", data |-> data]

Returned(v) == [threw |-> FALSE, v |-> v]

Threw(message) == [threw |-> TRUE, message |-> message]

FetchFromOMDB_NoFlag(answer) ==
    IF answer.kind = "transport"
    THEN Threw(Txt("Network Error"))
    ELSE Returned(answer.data)

\* fetchFromOMDB(params), given what the provider answers
FetchFromOMDB(answer) ==
    IF answer.kind = "transport"
    THEN Threw(Txt("Network Error"))
    ELSE IF answer.data.Response = Txt("False")
    THEN Threw(IF Falsy(answer.data.Error) THEN Txt("OMDb API Error")
               ELSE answer.data.Error)
    ELSE Returned(answer.data)

(***************************************************************************)
(* fetchMoviesByTitles(titles): one callback per title, joined by          *)
(* Promise.all, then filtered.                                             *)
(***************************************************************************)
Pending == [st |-> "pending"]

Fulfilled(v) == [st |-> "fulfilled", v |-> v]

Rejected == [st |-> "rejected"]

\* { t: title, type: 'movie' }
TitleParams(title) == [t |-> title, type |-> "movie"]

TitleCallback_NoCatch(answer) ==
    LET got == FetchFromOMDB(answer)
    IN  IF got.threw
        THEN Rejected
        ELSE IF ~Falsy(got.v.Title)
        THEN Fulfilled(FormatMovie(got.v))
        ELSE Fulfilled(Undefined)

\* the body of the callback after its await: what its promise settles to
TitleCallback(answer) ==
    LET got == FetchFromOMDB(answer)
    IN  IF got.threw
        THEN Fulfilled(Null)
        ELSE IF ~Falsy(got.v.Title)
        THEN Fulfilled(FormatMovie(got.v))
        ELSE Fulfilled(Undefined)

\* results.filter(movie => movie !== null)
FilterNotNull(results) == SelectSeq(results, LAMBDA movie : movie # Null)

PromiseAll_Race(promises) ==
    IF \E i \in DOMAIN promises : promises[i].st = "fulfilled"
    THEN Fulfilled([i \in DOMAIN promises |->
            IF promises[i].st = "fulfilled" THEN promises[i].v ELSE Null])
    ELSE Pending

\* Promise.all(promises): rejects as soon as one promise has rejected, resolves
\* with the values in the promises' order once all have fulfilled
PromiseAll(promises) ==
    IF \E i \in DOMAIN promises : promises[i].st = "rejected"
    THEN Rejected
    ELSE IF \A i \in DOMAIN promises : promises[i].st = "fulfilled"
    THEN Fulfilled([i \in DOMAIN promises |-> promises[i].v])
    ELSE Pending

\* Number of titles of one fetchMoviesByTitles call of SpecBatch.
MaxKeys == 3

KeyA == Txt("A")
KeyB == Txt("B")
KeyC == Txt("C")

Keys == {KeyA, KeyB, KeyC}

KeySeqs == UNION { [1..n -> Keys] : n \in 0..MaxKeys }

\* the provider's record for a title
MovieOf(title) ==
    [EmptyPayload EXCEPT
        !.Response = Txt("True"), !.Title = title, !.imdbID = Txt("tt0000001"),
        !.Plot = Txt("A plot."), !.Poster = NA, !.Year = Txt("2010"),
        !.imdbRating = Str(<<"8", ".", "8">>),
        !.imdbVotes = Str(<<"2", ",", "1", "0", "0">>),
        !.Genre = Txt("Action"), !.Runtime = Txt("148 min"),
        !.Director = NA, !.Actors = Txt("X, Y")]

NotFound ==
    [EmptyPayload EXCEPT !.Response = Txt("False"), !.Error = Txt("Movie not found!")]

\* a 200 answer that is no movie record: it has neither flag nor title
Untitled == [EmptyPayload EXCEPT !.Plot = Txt("A plot.")]

\* what the provider may answer to a call for a title
TitleAnswers(title) ==
    {TransportFailure, Http(NotFound), Http(MovieOf(title)), Http(Untitled)}

BatchAtRest ==
    /\ bPc = "idle"
    /\ bTitles = <<>>
    /\ bCalls = <<>>
    /\ bHttp = <<>>
    /\ bPromise = <<>>
    /\ bLate = FALSE
    /\ bResult = Null

\* const promises = titles.map(async (title) => { ... await fetchFromOMDB(...)
\* every callback runs up to its await, so every call is issued
BatchStart(titles) ==
    /\ bPc = "idle"
    /\ bPc' = "waiting"
    /\ bTitles' = titles
    /\ bCalls' = [i \in DOMAIN titles |-> TitleParams(titles[i])]
    /\ bHttp' = [i \in DOMAIN titles |-> "pending"]
    /\ bPromise' = [i \in DOMAIN titles |-> Pending]
    /\ bLate' = FALSE
    /\ bResult' = Null
    /\ UNCHANGED notBatch

\* call i settles and its callback runs to its end
BatchSettle(i) ==
    /\ bPc = "waiting"
    /\ i \in DOMAIN bTitles
    /\ bPromise[i].st = "pending"
    /\ \E answer \in TitleAnswers(bTitles[i]) :
        /\ bHttp' = [bHttp EXCEPT ![i] = answer]
        /\ bPromise' = [bPromise EXCEPT ![i] = TitleCallback(answer)]
    /\ bLate' = (bLate \/ \E j \in 1..(i - 1) : bPromise[j].st = "pending")
    /\ UNCHANGED <<bPc, bTitles, bCalls, bResult, notBatch>>

\* const results = await Promise.all(promises); return results.filter(...)
BatchJoin ==
    /\ bPc = "waiting"
    /\ LET all == PromiseAll(bPromise)
       IN  /\ all.st # "pending"
           /\ IF all.st = "rejected"
              THEN bPc' = "threw" /\ bResult' = Null
              ELSE bPc' = "returned" /\ bResult' = FilterNotNull(all.v)
    /\ UNCHANGED <<bTitles, bCalls, bHttp, bPromise, bLate, notBatch>>

\* the caller has the result; the next call may start
BatchReset ==
    /\ bPc \in {"returned", "threw"}
    /\ bPc' = "idle"
    /\ bTitles' = <<>>
    /\ bCalls' = <<>>
    /\ bHttp' = <<>>
    /\ bPromise' = <<>>
    /\ bLate' = FALSE
    /\ bResult' = Null
    /\ UNCHANGED notBatch

(***************************************************************************)
(* routes/movies: the six catalog endpoints.  One request is followed from *)
(* its arrival to its answer; the handler's joint waits are one step each, *)
(* computed with the operators of fetchMoviesByTitles above.               *)
(***************************************************************************)
MOVIE_LISTS ==
    [popular |->
        <<"Inception", "The Dark Knight", "Interstellar", "Avengers Endgame",
          "Avatar", "Titanic", "The Matrix", "Forrest Gump",
          "Pulp Fiction", "The Shawshank Redemption", "Fight Club", "Goodfellas",
          "The Godfather", "The Lord of the Rings", "Inception", "Django Unchained">>,
     top_rated |->
        <<"The Shawshank Redemption", "The Godfather", "The Dark Knight", "12 Angry Men",
          "Schindler's List", "The Lord of the Rings", "Pulp Fiction", "Inception",
          "Fight Club", "Forrest Gump", "The Matrix", "Goodfellas",
          "One Flew Over the Cuckoo's Nest", "Seven", "Se7en", "The Silence of the Lambs">>,
     upcoming |->
        <<"Dune Part Two", "Deadpool 3", "Joker 2", "Gladiator 2",
          "Avatar 3", "Mission Impossible", "Fast X", "The Marvels",
          "Aquaman 2", "Wonka", "The Hunger Games", "Napoleon",
          "Wish", "Migration", "Anyone But You", "The Color Purple">>]

\* MOVIE_LISTS.popular.slice(0, 8)
NOW_PLAYING_COUNT == 8

\* searchData.Search.slice(0, 8)
SEARCH_DETAIL_LIMIT == 8

\* Math.ceil(... / 10)
SEARCH_PAGE_SIZE == 10

ListNames == {"popular", "top_rated", "upcoming", "now_playing"}

Titled(names) == [i \in DOMAIN names |-> Txt(names[i])]

TitlesOf_Whole(name) ==
    Titled(MOVIE_LISTS[IF name = "now_playing" THEN "popular" ELSE name])

\* the titles a list endpoint hands to fetchMoviesByTitles
TitlesOf(name) ==
    IF name = "now_playing"
    THEN Titled(SubSeq(MOVIE_LISTS.popular, 1, NOW_PLAYING_COUNT))
    ELSE Titled(MOVIE_LISTS[name])

ListFailureMessage(name) ==
    CASE name = "popular" -> "Failed to fetch popular movies"
      [] name = "top_rated" -> "Failed to fetch top rated movies"
      [] name = "upcoming" -> "Failed to fetch upcoming movies"
      [] name = "now_playing" -> "Failed to fetch now playing movies"

PLACEHOLDER_KEY == Txt("your-omdb-api-key")

KeyUnconfigured_EmptyOnly(key) == Falsy(key)

\* !OMDB_API_KEY || OMDB_API_KEY === 'your-omdb-api-key'
KeyUnconfigured(key) == Falsy(key) \/ key = PLACEHOLDER_KEY

\* the values process.env.OMDB_API_KEY may have
ApiKeys == {Undefined, Txt(""), PLACEHOLDER_KEY, Txt("9464f577")}

KeyNotConfiguredResponse == Resp(500, FALSE, "OMDb API key not configured")

QueryRequiredResponse == Resp(400, FALSE, "Search query is required")

\* fetchMoviesByTitles as a function of what the provider answers to each call
FetchMoviesByTitles(answers) ==
    LET all == PromiseAll([i \in DOMAIN answers |-> TitleCallback(answers[i])])
    IN  IF all.st = "rejected"
        THEN Threw(Txt("rejected"))
        ELSE Returned(FilterNotNull(all.v))

ListResponse(movies) ==
    [status |-> 200,
     body |-> [success |-> TRUE, page |-> 1, totalPages |-> 1,
               totalResults |-> Len(movies), movies |-> movies]]

\* Number of calls of one joint wait that may fail (or all of them fail).
MaxBad == 2

BadAnswers == {TransportFailure, Http(NotFound), Http(Untitled)}

\* the subsets of S with at most k elements
RECURSIVE SubsetsUpTo(_, _)
SubsetsUpTo(S, k) ==
    IF k = 0 THEN {{}}
    ELSE LET smaller == SubsetsUpTo(S, k - 1)
         IN  smaller \cup { b \cup {x} : b \in smaller, x \in S }

\* the answers to n calls: good(i) for all but the calls of a set bad, which get
\* one of the failing answers
AnswerChoices(n, good(_)) ==
    { [i \in 1..n |-> IF i \in bad THEN a ELSE good(i)] :
        bad \in SubsetsUpTo(1..n, MaxBad) \cup {1..n},
        a \in BadAnswers }

CatalogIdle == [op |-> "none"]

CatalogAtRest ==
    /\ cPc = "idle"
    /\ cReq = CatalogIdle
    /\ cCalls = <<>>
    /\ cHttp = <<>>
    /\ cData = Null
    /\ cRes = Null

\* router.get('/popular' | '/top_rated' | '/upcoming' | '/now_playing') up to the
\* await of fetchMoviesByTitles, which issues one call per title
ListRecv(name) ==
    /\ cPc = "idle"
    /\ cReq' = [op |-> "list", name |-> name]
    /\ IF KeyUnconfigured(apiKey)
       THEN /\ cPc' = "done"
            /\ cRes' = KeyNotConfiguredResponse
            /\ cCalls' = <<>>
       ELSE /\ cPc' = "list"
            /\ cRes' = Null
            /\ cCalls' = [i \in DOMAIN TitlesOf(name) |-> TitleParams(TitlesOf(name)[i])]
    /\ UNCHANGED <<apiKey, cHttp, cData, notCatalog>>

\* what the provider may answer to the calls of each list
ListAnswers ==
    [name \in ListNames |->
        AnswerChoices(Len(TitlesOf(name)), LAMBDA i : Http(MovieOf(TitlesOf(name)[i])))]

\* every call of the list has settled; the handler answers
ListSettle ==
    /\ cPc = "list"
    /\ cHttp' \in ListAnswers[cReq.name]
    /\ LET got == FetchMoviesByTitles(cHttp')
       IN  cRes' = IF got.threw
                   THEN Resp(500, FALSE, ListFailureMessage(cReq.name))
                   ELSE ListResponse(got.v)
    /\ cPc' = "done"
    /\ UNCHANGED <<apiKey, cReq, cCalls, cData, notCatalog>>

\* Number(cs) for a string of an integer: 0 for the empty string, NaN when a
\* character is no digit
ToNumber(cs) ==
    IF cs = <<>> THEN Num(0)
    ELSE IF Run(cs, 1, Digits) = Len(cs) THEN Num(DecimalValue(cs))
    ELSE NaN

\* x || d for a number x
NumberOr(x, d) == IF x = NaN \/ x = Num(0) THEN d ELSE x

\* Math.ceil((searchData.totalResults || 0) / 10)
TotalPages(totalResults) ==
    LET n == IF Falsy(totalResults) THEN Num(0) ELSE ToNumber(totalResults.v)
    IN  IF n = NaN THEN NaN
        ELSE Num((n.v + SEARCH_PAGE_SIZE - 1) \div SEARCH_PAGE_SIZE)

\* parseInt(x) || d, for x undefined or a string
ParseIntOr(x, d) ==
    IF x.t = "string" THEN NumberOr(ParseInt(x.v), d) ELSE d

SearchQueries == {Undefined, Txt(""), Txt("batman")}

SearchPages == {Undefined, Str(<<"2">>)}

\* Number of hits on the provider's page of a text search.
MaxHits == 9

HitId(i) == Txt(<<"tt1", "tt2", "tt3", "tt4", "tt5", "tt6", "tt7", "tt8", "tt9", "tt10">>[i])

HitTitle(i) == Txt(<<"B1", "B2", "B3", "B4", "B5", "B6", "B7", "B8", "B9", "B10">>[i])

Hit(i) == [Title |-> HitTitle(i), imdbID |-> HitId(i)]

Array(items) == [t |-> "array", v |-> items]

\* the provider's page for a text search with n hits out of total
SearchPage(n, total) ==
    [EmptyPayload EXCEPT
        !.Response = Txt("True"),
        !.Search = Array([i \in 1..n |-> Hit(i)]),
        !.totalResults = total]

\* the total the provider reports: none, 25, 30, and a string that is no number
SearchTotals == {Undefined, Str(<<"2", "5">>), Str(<<"3", "0">>), Str(<<"x">>)}

\* what the provider may answer to the text search
SearchAnswers ==
    {TransportFailure, Http(NotFound), Http([EmptyPayload EXCEPT !.Response = Txt("True")])}
    \cup { Http(SearchPage(n, total)) : n \in 0..MaxHits, total \in SearchTotals }

\* the provider's record for an id
DetailOf(id) == [MovieOf(Txt("A title")) EXCEPT !.imdbID = id]

\* the body of search's per-hit callback after its await
DetailCallback(answer) ==
    LET got == FetchFromOMDB(answer)
    IN  IF got.threw THEN Fulfilled(Null) ELSE Fulfilled(FormatMovie(got.v))

SearchResponse_Counted(page, data, movies) ==
    [status |-> 200,
     body |-> [success |-> TRUE,
               page |-> ParseIntOr(page, Num(1)),
               totalPages |-> Num((Len(movies) + SEARCH_PAGE_SIZE - 1) \div SEARCH_PAGE_SIZE),
               totalResults |-> Num(Len(movies)),
               movies |-> movies]]

SearchResponse(page, data, movies) ==
    [status |-> 200,
     body |-> [success |-> TRUE,
               page |-> ParseIntOr(page, Num(1)),
               totalPages |-> TotalPages(data.totalResults),
               totalResults |-> ParseIntOr(data.totalResults, Num(0)),
               movies |-> movies]]

SearchFailedResponse == Resp(500, FALSE, "Failed to search movies")

LimitedResults_All(hits) == hits

\* searchData.Search.slice(0, 8)
LimitedResults(hits) ==
    SubSeq(hits, 1, IF Len(hits) < SEARCH_DETAIL_LIMIT
                    THEN Len(hits) ELSE SEARCH_DETAIL_LIMIT)

QueryMissing_UndefinedOnly(query) == query = Undefined

\* !query
QueryMissing(query) == Falsy(query)

\* router.get('/search') up to the await of the text search
SearchRecv(query, page) ==
    /\ cPc = "idle"
    /\ cReq' = [op |-> "search", query |-> query, page |-> page]
    /\ IF QueryMissing(query)
       THEN /\ cPc' = "done"
            /\ cRes' = QueryRequiredResponse
            /\ cCalls' = <<>>
       ELSE IF KeyUnconfigured(apiKey)
       THEN /\ cPc' = "done"
            /\ cRes' = KeyNotConfiguredResponse
            /\ cCalls' = <<>>
       ELSE /\ cPc' = "search"
            /\ cRes' = Null
            /\ cCalls' = << [s |-> query, type |-> "movie",
                            page |-> IF Falsy(page) THEN Num(1) ELSE page] >>
    /\ UNCHANGED <<apiKey, cHttp, cData, notCatalog>>

\* the text search has settled: the handler answers, or issues the detail calls
\* for the first hits
SearchTextSettle ==
    /\ cPc = "search"
    /\ \E answer \in SearchAnswers :
        LET got == FetchFromOMDB(answer)
        IN  /\ cHttp' = <<answer>>
            /\ IF got.threw
               THEN /\ cPc' = "done"
                    /\ cRes' = SearchFailedResponse
                    /\ UNCHANGED <<cCalls, cData>>
               ELSE IF got.v.Search.t = "array"
               THEN LET hits == got.v.Search.v
                        limitedResults == LimitedResults(hits)
                    IN  /\ cPc' = "details"
                        /\ cData' = got.v
                        /\ cCalls' = cCalls \o
                               [i \in DOMAIN limitedResults |-> [i |-> limitedResults[i].imdbID]]
                        /\ cRes' = Null
               ELSE /\ cPc' = "done"
                    /\ cData' = got.v
                    /\ cRes' = SearchResponse(cReq.page, got.v, <<>>)
                    /\ UNCHANGED cCalls
    /\ UNCHANGED <<apiKey, cReq, notCatalog>>

\* what the provider may answer to the detail calls for the first n hits
DetailAnswerChoices ==
    [n \in 0..MaxHits |-> AnswerChoices(n, LAMBDA i : Http(DetailOf(HitId(i))))]

\* every detail call has settled; the handler answers
SearchDetailsSettle ==
    /\ cPc = "details"
    /\ LET n == Len(cCalls) - 1
       IN  \E answers \in DetailAnswerChoices[n] :
              LET all == PromiseAll([i \in 1..n |-> DetailCallback(answers[i])])
              IN  /\ cHttp' = cHttp \o answers
                  /\ cRes' = IF all.st = "rejected"
                             THEN SearchFailedResponse
                             ELSE SearchResponse(cReq.page, cData, FilterNotNull(all.v))
    /\ cPc' = "done"
    /\ UNCHANGED <<apiKey, cReq, cCalls, cData, notCatalog>>

DetailIds == {Txt("tt1"), Txt("popular2")}

DetailFailedResponse == Resp(500, FALSE, "Failed to fetch movie details")

DetailCatch_Leaks(error) ==
    [status |-> 500,
     body |-> [success |-> FALSE, message |-> "Failed to fetch movie details",
               error |-> error]]

\* catch (error) { ... res.status(500).json(...) } of the detail handler
DetailCatch(error) == DetailFailedResponse

\* router.get('/:id') up to the await of fetchFromOMDB
DetailRecv(id) ==
    /\ cPc = "idle"
    /\ cReq' = [op |-> "detail", id |-> id]
    /\ IF KeyUnconfigured(apiKey)
       THEN /\ cPc' = "done"
            /\ cRes' = KeyNotConfiguredResponse
            /\ cCalls' = <<>>
       ELSE /\ cPc' = "detail"
            /\ cRes' = Null
            /\ cCalls' = << [i |-> id] >>
    /\ UNCHANGED <<apiKey, cHttp, cData, notCatalog>>

\* the detail call has settled; the handler answers
DetailSettle ==
    /\ cPc = "detail"
    /\ \E answer \in {Http(DetailOf(cReq.id))} \cup BadAnswers :
        LET got == FetchFromOMDB(answer)
        IN  /\ cHttp' = <<answer>>
            /\ cRes' = IF got.threw
                       THEN DetailCatch(got.message)
                       ELSE [status |-> 200,
                             body |-> [success |-> TRUE, movie |-> FormatMovie(got.v)]]
    /\ cPc' = "done"
    /\ UNCHANGED <<apiKey, cReq, cCalls, cData, notCatalog>>

\* the answer has been sent; the next request may arrive
CatalogReset ==
    /\ cPc = "done"
    /\ cPc' = "idle"
    /\ cReq' = CatalogIdle
    /\ cCalls' = <<>>
    /\ cHttp' = <<>>
    /\ cData' = Null
    /\ cRes' = Null
    /\ UNCHANGED <<apiKey, notCatalog>>

(***************************************************************************)
(* The `users` table (CREATE TABLE IF NOT EXISTS users ...).               *)
(***************************************************************************)
\* SELECT ... FROM users WHERE email = ?
SelectByEmail(rows, email) == SelectSeq(rows, LAMBDA r : r.email = email)

UniqueViolation_NoConstraint(rows, email) == FALSE

\* email VARCHAR(100) UNIQUE NOT NULL: an insert of a present email is rejected
UniqueViolation(rows, email) == \E i \in 1..Len(rows) : rows[i].email = email

InsertRow_Replacing(table, row) == <<row>>

\* the table after the INSERT has added the row
InsertRow(table, row) == Append(table, row)

\* INSERT INTO users (username, email, password, phone) VALUES (?, ?, ?, ?)
NewRow(id, username, email, hashedPassword, phone) ==
    [id |-> id, username |-> username, email |-> email,
     password |-> hashedPassword, phone |-> phone]

(***************************************************************************)
(* Request bodies the clients send.                                        *)
(***************************************************************************)
U1 == Str(<<"n", "e", "o">>)
E1 == Str(<<"a", "@", "b", ".", "c">>)
E2 == Str(<<"x", "@", "y", ".", "z">>)
P1 == Str(<<"s", "e", "c", "r", "e", "t">>)
P2 == Str(<<"h", "u", "n", "t", "e", "r", "2">>)
ShortPassword == Str(<<"a", "b", "c", "1", "2">>)
Phone1 == Str(<<"5", "5", "5">>)

BadEmails ==
    { Str(<<"a", "@", "b">>),
      Str(<<"a", " ", "@", "b", ".", "c">>) }

RegBody(u, e, p, ph) == [username |-> u, email |-> e, password |-> p, phone |-> ph]

ValidRegisterBodies ==
    { RegBody(U1, E1, P1, Phone1), RegBody(U1, E2, P2, Str(<<>>)) }

InvalidRegisterBodies ==
    { RegBody(Undefined, E1, P1, Undefined),
      RegBody(U1, Str(<<>>), P1, Undefined),
      RegBody(U1, E1, Undefined, Undefined),
      RegBody(U1, E1, ShortPassword, Undefined) }
    \cup { RegBody(U1, e, P1, Undefined) : e \in BadEmails }

RegisterBodies == ValidRegisterBodies \cup InvalidRegisterBodies

LoginBody(e, p) == [username |-> Undefined, email |-> e, password |-> p, phone |-> Undefined]

ValidLoginBodies ==
    { LoginBody(E1, P1), LoginBody(E1, ShortPassword), LoginBody(E2, P2) }

InvalidLoginBodies ==
    { LoginBody(Undefined, P1), LoginBody(E1, Str(<<>>)) }

LoginBodies == ValidLoginBodies \cup InvalidLoginBodies

(***************************************************************************)
(* routes/auth: the two handlers, one action per stretch between awaits.   *)
(*   pc     where the handler is suspended                                 *)
(*   rows   the handler's result of its SELECT (existingUsers / users)     *)
(*   err    the code of the error caught by the handler's catch, if any    *)
(*   stmts  the statements the request has had the store execute           *)
(*   prior  whether, when the request arrived, a register request with     *)
(*          the same email had already been answered 201                   *)
(***************************************************************************)
Idle ==
    [pc |-> "idle", kind |-> "none", body |-> Null, rows |-> <<>>,
     err |-> "none", stmts |-> <<>>, res |-> Null, prior |-> FALSE]

\* a request is taken by the first free slot
FirstFree(s) ==
    /\ areq[s].pc = "idle"
    /\ \A t \in Slots : t < s => areq[t].pc # "idle"

Arrived(kind, b) ==
    [Idle EXCEPT !.kind = kind, !.body = b,
                 !.prior = \E a \in returned201 : a.email = b.email]

Answer(q, res) == [q EXCEPT !.pc = "done", !.res = res]

Thrown(q, code) == [q EXCEPT !.err = code]

RegisterConflictResponse == Resp(409, FALSE, "Email already registered")

RegisterCreatedResponse(insertId) ==
    [status |-> 201,
     body |-> [success |-> TRUE, message |-> "User registered successfully",
               userId |-> insertId]]

RegisterCatch_Leaks(code) ==
    [status |-> 500,
     body |-> [success |-> FALSE, message |-> "Internal server error during registration",
               error |-> code]]

\* catch (error) of register: every thrown error is answered the same way
RegisterCatch(code) == Resp(500, FALSE, "Internal server error during registration")

LoginNoUserResponse_Distinct == Resp(404, FALSE, "User not found")

LoginNoUserResponse == Resp(401, FALSE, "Invalid email or password")

LoginBadPasswordResponse == Resp(401, FALSE, "Invalid email or password")

UserWithoutPassword_Whole(user) == user

\* const { password: _, ...userWithoutPassword } = user
UserWithoutPassword(user) == [f \in (DOMAIN user) \ {"password"} |-> user[f]]

LoginOkResponse(user) ==
    [status |-> 200,
     body |-> [success |-> TRUE, message |-> "Login successful",
               user |-> UserWithoutPassword(user)]]

LoginCatch_Silent(code) == Null

\* catch (error) of login
LoginCatch(code) == Resp(500, FALSE, "Internal server error during login")

\* POST /register up to its first await: validation, then the lookup is issued
RegisterRecv(s, b) ==
    /\ FirstFree(s)
    /\ LET q == Arrived("register", b)
           v == RegisterValidate(b)
       IN  areq' = [areq EXCEPT ![s] =
                IF v # Null THEN Answer(q, v) ELSE [q EXCEPT !.pc = "lookup"]]
    /\ UNCHANGED <<users, nextId, returned201, notAuth>>

RegisterExists_Never(existingUsers) == FALSE

\* existingUsers.length > 0
RegisterExists(existingUsers) == Len(existingUsers) > 0

\* the store runs SELECT id FROM users WHERE email = ?, the handler resumes
RegLookup(s) ==
    /\ areq[s].pc = "lookup"
    /\ \E fails \in BOOLEAN :
        LET q == [areq[s] EXCEPT !.stmts = Append(@, "SELECT")]
            existingUsers == SelectByEmail(users, q.body.email)
        IN  areq' = [areq EXCEPT ![s] =
                IF fails
                THEN Answer(Thrown(q, "STORE_FAILURE"), RegisterCatch("STORE_FAILURE"))
                ELSE IF RegisterExists(existingUsers)
                THEN Answer([q EXCEPT !.rows = existingUsers], RegisterConflictResponse)
                ELSE [q EXCEPT !.rows = existingUsers, !.pc = "insert"]]
    /\ UNCHANGED <<users, nextId, returned201, notAuth>>

\* bcrypt.hash settles (it touches nothing shared, so its await is folded in here),
\* the store runs the INSERT, the handler resumes and answers
RegInsert(s) ==
    /\ areq[s].pc = "insert"
    /\ \E fails \in BOOLEAN, salt \in Salts :
        LET q == [areq[s] EXCEPT !.stmts = Append(@, "INSERT")]
            b == q.body
            hashedPassword == BcryptHash(b.password.v, SALT_ROUNDS, salt)
        IN  IF fails
            THEN /\ areq' = [areq EXCEPT ![s] =
                        Answer(Thrown(q, "STORE_FAILURE"), RegisterCatch("STORE_FAILURE"))]
                 /\ UNCHANGED <<users, nextId, returned201, notAuth>>
            ELSE IF UniqueViolation(users, b.email)
            THEN /\ areq' = [areq EXCEPT ![s] =
                        Answer(Thrown(q, "ER_DUP_ENTRY"), RegisterCatch("ER_DUP_ENTRY"))]
                 /\ UNCHANGED <<users, nextId, returned201, notAuth>>
            ELSE /\ users' = InsertRow(users,
                        NewRow(nextId, b.username, b.email, hashedPassword, OrNull(b.phone)))
                 /\ nextId' = nextId + 1
                 /\ areq' = [areq EXCEPT ![s] = Answer(q, RegisterCreatedResponse(nextId))]
                 /\ returned201' = returned201 \cup
                        {[email |-> b.email, password |-> b.password, userId |-> nextId]}
                 /\ UNCHANGED notAuth

\* POST /login up to its first await
LoginRecv(s, b) ==
    /\ FirstFree(s)
    /\ LET q == Arrived("login", b)
           v == LoginValidate(b)
       IN  areq' = [areq EXCEPT ![s] =
                IF v # Null THEN Answer(q, v) ELSE [q EXCEPT !.pc = "select"]]
    /\ UNCHANGED <<users, nextId, returned201, notAuth>>

LoginAnswer_NoCompare(password, found) ==
    IF Len(found) = 0 THEN LoginNoUserResponse ELSE LoginOkResponse(found[1])

\* users.length === 0, then bcrypt.compare against users[0] (it touches nothing
\* shared, so its await is folded in here), then the answer
LoginAnswer(password, found) ==
    IF Len(found) = 0
    THEN LoginNoUserResponse
    ELSE LET user == found[1]
             isPasswordValid == BcryptCompare(password.v, user.password)
         IN  IF ~isPasswordValid
             THEN LoginBadPasswordResponse
             ELSE LoginOkResponse(user)

\* the store runs SELECT id, username, email, password, phone ..., handler resumes
LoginSelect(s) ==
    /\ areq[s].pc = "select"
    /\ \E fails \in BOOLEAN :
        LET q == [areq[s] EXCEPT !.stmts = Append(@, "SELECT")]
            found == SelectByEmail(users, q.body.email)
        IN  areq' = [areq EXCEPT ![s] =
                IF fails
                THEN Answer(Thrown(q, "STORE_FAILURE"), LoginCatch("STORE_FAILURE"))
                ELSE Answer([q EXCEPT !.rows = found],
                            LoginAnswer(q.body.password, found))]
    /\ UNCHANGED <<users, nextId, returned201, notAuth>>

\* the answer has been sent; the slot serves the next request
Recycle(s) ==
    /\ areq[s].pc = "done"
    /\ areq' = [areq EXCEPT ![s] = Idle]
    /\ UNCHANGED <<users, nextId, returned201, notAuth>>

\* no account request in flight, the table as initDatabase creates it
AuthAtRest ==
    /\ users = <<>>
    /\ nextId = 1
    /\ areq = [s \in Slots |-> Idle]
    /\ returned201 = {}

(***************************************************************************)
(* server.js startServer, with testConnection and initDatabase of db.js.   *)
(***************************************************************************)
\* the process has been started; the table may be there from an earlier run
ProcessStarted ==
    /\ sPc = "boot"
    /\ sConn = "untested"
    /\ sInit = "none"
    /\ sTable \in BOOLEAN
    /\ sExit = Null

\* the server that the other specifications serve requests from
ServerUp ==
    /\ sPc = "listening"
    /\ sConn = "ok"
    /\ sInit = "ok"
    /\ sTable = TRUE
    /\ sExit = Null

\* startServer() up to the await in testConnection: pool.getConnection()
StartServer ==
    /\ sPc = "boot"
    /\ sPc' = "testing"
    /\ UNCHANGED <<sConn, sInit, sTable, sExit, notStartup>>

TestConnectionFailed_Continue ==
    /\ sConn' = "failed"
    /\ sPc' = "initializing"
    /\ sExit' = Null

\* catch (error) { ...; process.exit(1) } of testConnection
TestConnectionFailed ==
    /\ sConn' = "failed"
    /\ sPc' = "exited"
    /\ sExit' = 1

\* pool.getConnection() settles: testConnection returns and initDatabase runs
\* up to its await of pool.execute, or the process exits
TestConnectionSettle ==
    /\ sPc = "testing"
    /\ \E connected \in BOOLEAN :
          IF connected
          THEN /\ sConn' = "ok"
               /\ sPc' = "initializing"
               /\ sExit' = Null
          ELSE TestConnectionFailed
    /\ UNCHANGED <<sInit, sTable, notStartup>>

InitDatabaseFailed_Exits ==
    /\ sInit' = "failed"
    /\ sPc' = "exited"
    /\ sExit' = 1
    /\ UNCHANGED sTable

\* catch (error) { console.error(...) } of initDatabase, then app.listen(PORT)
InitDatabaseFailed ==
    /\ sInit' = "failed"
    /\ sPc' = "listening"
    /\ sExit' = Null
    /\ UNCHANGED sTable

\* pool.execute(createTableQuery) settles: initDatabase returns either way and
\* startServer calls app.listen
InitDatabaseSettle ==
    /\ sPc = "initializing"
    /\ \E created \in BOOLEAN :
          IF created
          THEN /\ sInit' = "ok"
               /\ sTable' = TRUE
               /\ sPc' = "listening"
               /\ sExit' = Null
          ELSE InitDatabaseFailed
    /\ UNCHANGED <<sConn, notStartup>>

\* a statement on a table that does not exist fails
StatementsFailWithoutTable ==
    sTable \/ \A s \in Slots :
                (areq[s].pc \in {"lookup", "insert", "select"} /\ areq'[s] # areq[s])
                    => areq'[s].err = "STORE_FAILURE"

\* the listening server serves an account request, one at a time
ServeAccount ==
    /\ sPc = "listening"
    /\ \/ \E b \in RegisterBodies : RegisterRecv(1, b)
       \/ RegLookup(1)
       \/ RegInsert(1)
       \/ \E b \in LoginBodies : LoginRecv(1, b)
       \/ LoginSelect(1)
       \/ Recycle(1)
    /\ StatementsFailWithoutTable

(***************************************************************************)
(* client/js/main.js initApp, with checkAPIHealth of the client's api.js.  *)
(***************************************************************************)
\* let retries = 3
INITIAL_RETRIES == 3

LoaderNames == {"popular", "top_rated", "upcoming"}

CONNECTION_ERROR ==
    Txt("Unable to connect to the server. Please make sure the backend is running on port 5000.")

\* what apiRequest('/health') settles with: an error thrown, or a body
HealthFailed == [threw |-> TRUE]

HealthBody(status, success) == [threw |-> FALSE, status |-> status, success |-> success]

HealthResponses ==
    {HealthFailed, HealthBody("ok", "undefined"), HealthBody("undefined", "true"),
     HealthBody("error", "false")}

\* checkAPIHealth: response.status === 'ok' || response.success === true,
\* false when the request threw
CheckAPIHealth(response) ==
    IF response.threw THEN FALSE
    ELSE response.status = "ok" \/ response.success = "true"

\* how a list loader ends: it rendered the movies, showed 'none found', or
\* caught the error of its request
LoaderOutcomes == {"rendered", "empty", "failed"}

ClientNotStarted ==
    /\ kPc = "init"
    /\ kRetries = INITIAL_RETRIES
    /\ kHealthy = FALSE
    /\ kResults = <<>>
    /\ kSleeps = 0
    /\ kLoads = [n \in LoaderNames |-> "none"]
    /\ kError = Null

ShouldWait_Always(isHealthy, retries) == ~isHealthy

\* !isHealthy && retries > 1
ShouldWait(isHealthy, retries) == ~isHealthy /\ retries > 1

\* while (retries > 0 && !isHealthy): the next health check is issued, or the
\* loop is left: the error is shown, or the three loaders are started
LoopTest(retries, isHealthy) ==
    IF retries > 0 /\ ~isHealthy
    THEN /\ kPc' = "checking"
         /\ UNCHANGED <<kLoads, kError>>
    ELSE IF ~isHealthy
    THEN /\ kPc' = "done"
         /\ kError' = CONNECTION_ERROR
         /\ UNCHANGED kLoads
    ELSE /\ kPc' = "loading"
         /\ kLoads' = [n \in LoaderNames |-> "pending"]
         /\ UNCHANGED kError

\* initApp() up to its first await
InitApp ==
    /\ kPc = "init"
    /\ LoopTest(kRetries, kHealthy)
    /\ UNCHANGED <<kRetries, kHealthy, kResults, kSleeps, notClient>>

\* the health request settles; initApp waits a second, or goes round the loop
HealthSettle ==
    /\ kPc = "checking"
    /\ \E response \in HealthResponses :
          LET isHealthy == CheckAPIHealth(response)
          IN  /\ kResults' = Append(kResults, response)
              /\ kHealthy' = isHealthy
              /\ IF ShouldWait(isHealthy, kRetries)
                 THEN /\ kPc' = "sleeping"
                      /\ kSleeps' = kSleeps + 1
                      /\ UNCHANGED <<kRetries, kLoads, kError>>
                 ELSE /\ kRetries' = kRetries - 1
                      /\ LoopTest(kRetries - 1, isHealthy)
                      /\ UNCHANGED kSleeps
    /\ UNCHANGED notClient

\* the timer of the wait fires
SleepSettle ==
    /\ kPc = "sleeping"
    /\ kRetries' = kRetries - 1
    /\ LoopTest(kRetries - 1, kHealthy)
    /\ UNCHANGED <<kHealthy, kResults, kSleeps, notClient>>

\* a loader's request settles and the loader ends; initApp ends with the last
LoaderSettle(name) ==
    /\ kPc = "loading"
    /\ kLoads[name] = "pending"
    /\ \E outcome \in LoaderOutcomes :
          /\ kLoads' = [kLoads EXCEPT ![name] = outcome]
          /\ kPc' = IF \A n \in LoaderNames \ {name} : kLoads[n] # "pending"
                    THEN "done" ELSE "loading"
    /\ UNCHANGED <<kRetries, kHealthy, kResults, kSleeps, kError, notClient>>

\* the other specifications leave the catalog at rest, with a working key
KeyAtRest == apiKey = Txt("9464f577")

InitAuth ==
    AuthAtRest /\ BatchAtRest /\ CatalogAtRest /\ KeyAtRest /\ FormatAtRest /\ ServerUp
    /\ ClientNotStarted

NextAuth ==
    \E s \in Slots :
        \/ \E b \in RegisterBodies : RegisterRecv(s, b)
        \/ RegLookup(s)
        \/ RegInsert(s)
        \/ \E b \in LoginBodies : LoginRecv(s, b)
        \/ LoginSelect(s)
        \/ Recycle(s)

SpecAuth == InitAuth /\ [][NextAuth]_vars

InitBatch ==
    AuthAtRest /\ BatchAtRest /\ CatalogAtRest /\ KeyAtRest /\ FormatAtRest /\ ServerUp
    /\ ClientNotStarted

NextBatch ==
    \/ \E titles \in KeySeqs : BatchStart(titles)
    \/ \E i \in 1..MaxKeys : BatchSettle(i)
    \/ BatchJoin
    \/ BatchReset

SpecBatch == InitBatch /\ [][NextBatch]_vars

InitCatalog ==
    /\ AuthAtRest /\ BatchAtRest /\ CatalogAtRest /\ FormatAtRest /\ ServerUp
    /\ ClientNotStarted
    /\ apiKey \in ApiKeys

NextCatalog ==
    \/ \E name \in ListNames : ListRecv(name)
    \/ ListSettle
    \/ \E query \in SearchQueries, page \in SearchPages : SearchRecv(query, page)
    \/ SearchTextSettle
    \/ SearchDetailsSettle
    \/ \E id \in DetailIds : DetailRecv(id)
    \/ DetailSettle
    \/ CatalogReset

SpecCatalog == InitCatalog /\ [][NextCatalog]_vars

InitFormat ==
    AuthAtRest /\ BatchAtRest /\ CatalogAtRest /\ KeyAtRest /\ FormatAtRest /\ ServerUp
    /\ ClientNotStarted

NextFormat ==
    \/ FormatApply
    \/ FormatReset

SpecFormat == InitFormat /\ [][NextFormat]_vars

InitStartup ==
    AuthAtRest /\ BatchAtRest /\ CatalogAtRest /\ KeyAtRest /\ FormatAtRest /\ ProcessStarted
    /\ ClientNotStarted

NextStartup ==
    \/ StartServer
    \/ TestConnectionSettle
    \/ InitDatabaseSettle
    \/ ServeAccount

SpecStartup == InitStartup /\ [][NextStartup]_vars

\* no account request is in flight
AccountIdle == \A s \in Slots : areq[s].pc = "idle"

InitServe ==
    /\ AuthAtRest /\ BatchAtRest /\ CatalogAtRest /\ FormatAtRest /\ ServerUp
    /\ ClientNotStarted
    /\ apiKey \in ApiKeys

\* a step of the catalog request in flight, or the arrival of one
CatalogStep ==
    \/ \E name \in ListNames : ListRecv(name)
    \/ ListSettle
    \/ \E query \in SearchQueries, page \in SearchPages : SearchRecv(query, page)
    \/ SearchTextSettle
    \/ SearchDetailsSettle
    \/ \E id \in DetailIds : DetailRecv(id)
    \/ DetailSettle
    \/ CatalogReset

\* a step of the account request in flight, or the arrival of one
AccountStep ==
    \/ \E b \in RegisterBodies : RegisterRecv(1, b)
    \/ RegLookup(1)
    \/ RegInsert(1)
    \/ \E b \in LoginBodies : LoginRecv(1, b)
    \/ LoginSelect(1)
    \/ Recycle(1)

NextServe ==
    \/ AccountIdle /\ CatalogStep
    \/ cPc = "idle" /\ AccountStep

\* every provider call and every store statement that was issued settles
CallsSettle ==
    /\ WF_vars(ListSettle)
    /\ WF_vars(SearchTextSettle)
    /\ WF_vars(SearchDetailsSettle)
    /\ WF_vars(DetailSettle)
    /\ WF_vars(RegLookup(1))
    /\ WF_vars(RegInsert(1))
    /\ WF_vars(LoginSelect(1))

FairServe == InitServe /\ [][NextServe]_vars /\ CallsSettle

InitClient ==
    AuthAtRest /\ BatchAtRest /\ CatalogAtRest /\ KeyAtRest /\ FormatAtRest /\ ServerUp
    /\ ClientNotStarted

NextClient ==
    \/ InitApp
    \/ HealthSettle
    \/ SleepSettle
    \/ \E name \in LoaderNames : LoaderSettle(name)

SpecClient == InitClient /\ [][NextClient]_vars

TypeOKAuth ==
    /\ nextId = Len(users) + 1
    /\ \A s \in Slots : areq[s].pc \in
          {"idle", "lookup", "insert", "select", "done"}

(***************************************************************************)
(* Properties of the account endpoints.                                    *)
(***************************************************************************)
Done(s) == areq[s].pc = "done"

IsRegister(s) == areq[s].kind = "register"

IsLogin(s) == areq[s].kind = "login"

\* the supplied password is the one the row's hash was computed from
MatchesStoredHash(password, row) ==
    row.password.digest = Digest(password.v, row.password.salt, row.password.rounds)

\* a login whose select ran and found no row for the email
LoginNoAccountCase(s) ==
    /\ IsLogin(s) /\ Done(s) /\ areq[s].err = "none"
    /\ areq[s].stmts = <<"SELECT">>
    /\ areq[s].rows = <<>>

\* a login whose select found the account and whose password is not the stored one
LoginWrongPasswordCase(s) ==
    /\ IsLogin(s) /\ Done(s) /\ areq[s].err = "none"
    /\ areq[s].rows # <<>>
    /\ ~MatchesStoredHash(areq[s].body.password, areq[s].rows[1])

\* C1: a login for an email with no account and a login with a wrong password for
\* an existing account are both answered 401 with the same message, so that the
\* two answers are equal.
C1_LoginIndistinguishable ==
    \A s, t \in Slots :
        /\ LoginNoAccountCase(s) => areq[s].res.status = 401
        /\ LoginWrongPasswordCase(t) => areq[t].res.status = 401
        /\ LoginNoAccountCase(s) /\ LoginWrongPasswordCase(t)
              => areq[s].res = areq[t].res

C1_Witness ==
    \E s, t \in Slots : LoginNoAccountCase(s) /\ LoginWrongPasswordCase(t)

\* C2: a register request whose insert the unique-email constraint rejected is
\* answered 409, not 500.
C2_DuplicateInsertAnswered409 ==
    \A s \in Slots :
        IsRegister(s) /\ Done(s) /\ areq[s].err = "ER_DUP_ENTRY"
            => areq[s].res.status = 409

\* C3: under every interleaving of register requests the table never holds two
\* rows with the same email.
C3_EmailUnique ==
    \A i, j \in 1..Len(users) : i # j => users[i].email # users[j].email

\* two registrations of one email both passed the lookup; the second insert was
\* rejected by the constraint
C3_Witness ==
    \E s \in Slots : IsRegister(s) /\ areq[s].err = "ER_DUP_ENTRY"

\* a register request that passes validation and that arrived after a register
\* request with the same email had been answered 201
SecondRegistration(q) ==
    /\ q.kind = "register"
    /\ q.prior
    /\ RegisterValidate(q.body) = Null

C4_State ==
    \A s \in Slots :
        /\ SecondRegistration(areq[s]) =>
              /\ \A k \in 1..Len(areq[s].stmts) : areq[s].stmts[k] # "INSERT"
              /\ Done(s) => areq[s].res.status \in {409, 500}
              /\ Done(s) /\ areq[s].err = "none" => areq[s].res = RegisterConflictResponse
        /\ IsRegister(s) /\ Done(s) /\ areq[s].res.status = 201 =>
              /\ ~areq[s].prior
              /\ \E i \in 1..Len(users) :
                    /\ users[i].email = areq[s].body.email
                    /\ users[i].id = areq[s].res.body.userId

C4_Step ==
    \A s \in Slots :
        SecondRegistration(areq'[s]) /\ areq'[s] # areq[s] => users' = users

\* C4: of two valid register requests with one email, run one after the other, the
\* first is answered 201 with the id the store gave the row, and the second 409
\* (500 if its lookup fails) without an INSERT; no step of the second request
\* changes the table.
C4_SequentialDuplicate == [] C4_State /\ [][C4_Step]_vars

C4_Witness ==
    \E s \in Slots :
        /\ SecondRegistration(areq[s]) /\ Done(s)
        /\ areq[s].res.status = 409
        /\ areq[s].stmts = <<"SELECT">>

\* the validation rules, as the interface documents them
InvalidRegistration(b) ==
    \/ Falsy(b.username) \/ Falsy(b.email) \/ Falsy(b.password)
    \/ ~EmailRegexTest(b.email.v)
    \/ Len(b.password.v) < 6

InvalidLogin(b) == Falsy(b.email) \/ Falsy(b.password)

\* C5: a register request that fails validation, and a login request without
\* email or password, is answered 400 and has no statement executed by the store.
C5_ValidationBeforeStore ==
    \A s \in Slots :
        \/ IsRegister(s) /\ InvalidRegistration(areq[s].body)
        \/ IsLogin(s) /\ InvalidLogin(areq[s].body)
        => /\ Done(s)
           /\ areq[s].res.status = 400
           /\ areq[s].stmts = <<>>

\* the 5-character password "abc12", a malformed email and a login without
\* password have been answered
C5_Witness ==
    \E s, t \in Slots :
        /\ IsRegister(s) /\ Done(s)
        /\ ~Falsy(areq[s].body.username) /\ ~Falsy(areq[s].body.email)
        /\ EmailRegexTest(areq[s].body.email.v)
        /\ areq[s].body.password = ShortPassword
        /\ IsLogin(t) /\ Done(t) /\ Falsy(areq[t].body.password)

ResponseFields == {"success", "message", "userId", "user"}

ResponseMessages ==
    { "Username, email, and password are required",
      "Please provide a valid email address",
      "Password must be at least 6 characters long",
      "Email already registered",
      "User registered successfully",
      "Internal server error during registration",
      "Email and password are required",
      "Invalid email or password",
      "Login successful",
      "Internal server error during login" }

\* C7: an answer of register or login carries a fixed message and, at most, the
\* row's id (register) or the row without its password field (login); no field
\* holds the submitted password or the stored hash.
C7_NoPasswordInResponse ==
    \A s \in Slots : Done(s) =>
        LET body == areq[s].res.body
        IN  /\ DOMAIN body \subseteq ResponseFields
            /\ body.message \in ResponseMessages
            /\ "userId" \in DOMAIN body => body.userId \in Nat
            /\ "user" \in DOMAIN body =>
                  LET row == areq[s].rows[1]
                      user == body.user
                  IN  /\ DOMAIN user = (DOMAIN row) \ {"password"}
                      /\ \A f \in DOMAIN user : user[f] = row[f]
                      /\ \A f \in (DOMAIN user) \ {"id"} :
                            /\ user[f] # areq[s].body.password
                            /\ user[f] # row.password

C7_Witness ==
    \E s, t \in Slots :
        /\ IsLogin(s) /\ Done(s) /\ areq[s].res.status = 200
        /\ IsRegister(t) /\ Done(t) /\ areq[t].res.status = 201

(***************************************************************************)
(* fetchMoviesByTitles (SpecBatch).                                        *)
(***************************************************************************)
\* the i-th call succeeded: the provider answered, did not flag an error, and
\* the payload has a title
CallSucceeded(i) ==
    /\ bHttp[i] # TransportFailure
    /\ bHttp[i].data.Response # Txt("False")
    /\ ~Falsy(bHttp[i].data.Title)

\* the normalized records of the calls that succeeded, in key order
SucceededInKeyOrder ==
    LET idx == SelectSeq([i \in 1..Len(bTitles) |-> i], CallSucceeded)
    IN  [k \in 1..Len(idx) |-> FormatMovie(bHttp[idx[k]].data)]

\* C8: fetchMoviesByTitles never throws, and the sequence it returns is exactly
\* the normalized records of the keys whose provider call succeeded, in the
\* order of the keys.
C8_ResultIsSucceededInKeyOrder ==
    /\ bPc # "threw"
    /\ bPc = "returned" => bResult = SucceededInKeyOrder

\* C9: a key whose call was answered by a payload without a title leaves no
\* entry in the result: every entry of the result is a normalized record with a
\* title, never null or undefined.
C9_NoPlaceholderForUntitled ==
    bPc = "returned" =>
        \A k \in 1..Len(bResult) :
            /\ bResult[k] # Null
            /\ bResult[k] # Undefined
            /\ ~Falsy(bResult[k].title)

(***************************************************************************)
(* The catalog endpoints (SpecCatalog).                                    *)
(***************************************************************************)
CatalogDone == cPc = "done"

EmptyQuerySearch == cReq.op = "search" /\ Falsy(cReq.query)

\* the provider key is unset, empty, or still the placeholder of the sample
\* environment file
KeyNotConfigured == apiKey \in {Undefined, Txt(""), PLACEHOLDER_KEY}

\* C10, as stated: with the provider key unconfigured, every catalog request,
\* whatever its input, is answered 500 and no provider call is issued.
C10_Unconfigured500ForEveryInput ==
    (KeyNotConfigured /\ CatalogDone) =>
        /\ cRes.status = 500
        /\ cCalls = <<>>

\* C10, amended: with the provider key unconfigured (unset, empty or the
\* placeholder) no provider call is ever issued; the four lists, detail, and
\* search with a non-empty query are answered 500 'OMDb API key not configured',
\* and search with an absent or empty query is answered 400.
C10_UnconfiguredKeyNoProviderCall ==
    KeyNotConfigured =>
        /\ cCalls = <<>>
        /\ cPc \in {"idle", "done"}
        /\ CatalogDone =>
              IF EmptyQuerySearch
              THEN cRes = QueryRequiredResponse
              ELSE cRes = KeyNotConfiguredResponse

\* a search with a query has been answered 500 under the placeholder key
C10_Witness ==
    /\ apiKey = PLACEHOLDER_KEY
    /\ CatalogDone
    /\ cReq.op = "search"
    /\ ~Falsy(cReq.query)
    /\ cRes = KeyNotConfiguredResponse
    /\ cCalls = <<>>

\* C11: a search request whose query is absent or empty is answered 400 and
\* issues no provider call, neither the text search nor a detail fetch: the
\* request never waits on the provider.
C11_EmptyQuery400NoCall ==
    EmptyQuerySearch =>
        /\ cPc = "done"
        /\ cRes.status = 400
        /\ cRes = QueryRequiredResponse
        /\ cCalls = <<>>

\* an empty query has been answered 400 while the key is configured
C11_Witness ==
    /\ ~KeyNotConfigured
    /\ CatalogDone
    /\ cReq.op = "search"
    /\ cReq.query = Txt("")
    /\ cRes.status = 400
    /\ cCalls = <<>>

(***************************************************************************)
(* formatMovie (SpecFormat).                                               *)
(***************************************************************************)
FormatDone == fPc = "done"

\* a field of the provider's record is absent or the sentinel
AbsentOrSentinel(x) == x = Undefined \/ IsNA(x)

\* the fields of the record other than the title, each with the field of the
\* output made from it and that field's default
NormalizedFields ==
    { [from |-> "imdbID", to |-> "id", default |-> fMovie.Title],
      [from |-> "Plot", to |-> "overview", default |-> NO_DESCRIPTION],
      [from |-> "Poster", to |-> "posterPath", default |-> Null],
      [from |-> "Poster", to |-> "backdropPath", default |-> Null],
      [from |-> "Year", to |-> "releaseDate", default |-> Null],
      [from |-> "imdbRating", to |-> "rating", default |-> Null],
      [from |-> "imdbVotes", to |-> "voteCount", default |-> Null],
      [from |-> "Genre", to |-> "genre", default |-> Txt("")],
      [from |-> "Runtime", to |-> "runtime", default |-> Null],
      [from |-> "Director", to |-> "director", default |-> Null],
      [from |-> "Actors", to |-> "actors", default |-> Null] }

\* C12: for every provider record and every field of it other than the title
\* that is absent or the sentinel 'N/A', the output field made from it is null
\* (an undefined field counts as null) or that field's default, and no output
\* field carries the sentinel string.
C12_SentinelNeverLeaks ==
    FormatDone =>
        /\ \A f \in NormalizedFields :
              AbsentOrSentinel(fMovie[f.from]) =>
                  fOut[f.to] \in {Null, Undefined, f.default}
        /\ \A k \in DOMAIN fOut : ~IsNA(fOut[k])

IsNumber(x) == x # NaN /\ "t" \in DOMAIN x /\ x.t = "number"

\* C13: for every provider record, rating and voteCount are a parsed number or
\* null, never NaN: rating is null when the rating string is absent, the
\* sentinel or unparseable, voteCount is null when the vote string is absent or
\* does not parse to an integer once the separators are removed.
C13_NumberOrNullNeverNaN ==
    FormatDone =>
        /\ fOut.rating = Null \/ IsNumber(fOut.rating)
        /\ fOut.voteCount = Null \/ IsNumber(fOut.voteCount)
        /\ (AbsentOrSentinel(fMovie.imdbRating)
                \/ ParseFloat(fMovie.imdbRating.v) = NaN) => fOut.rating = Null
        /\ (fMovie.imdbVotes = Undefined
                \/ ParseInt(StripCommas(fMovie.imdbVotes.v)) = NaN) => fOut.voteCount = Null

\* C14: for every provider record, posterPath and backdropPath are equal: both
\* the record's poster string, or both null.
C14_PosterEqualsBackdrop ==
    FormatDone =>
        /\ fOut.posterPath = fOut.backdropPath
        /\ IF AbsentOrSentinel(fMovie.Poster)
           THEN fOut.posterPath = Null
           ELSE fOut.posterPath = fMovie.Poster

\* a record with a poster has been normalized: both fields hold the poster
C14_Witness ==
    /\ FormatDone
    /\ fMovie.Poster = Txt("http://img/p.jpg")
    /\ fOut.posterPath = Txt("http://img/p.jpg")
    /\ fOut.backdropPath = Txt("http://img/p.jpg")

(***************************************************************************)
(* The list endpoints (SpecCatalog).                                       *)
(***************************************************************************)
ListDone(name) == CatalogDone /\ cReq.op = "list" /\ cReq.name = name

\* the provider answered the call with a record that has a title
AnswerSucceeded(answer) ==
    /\ answer # TransportFailure
    /\ answer.data.Response # Txt("False")
    /\ ~Falsy(answer.data.Title)

AllAnswersSucceeded == \A i \in DOMAIN cHttp : AnswerSucceeded(cHttp[i])

\* C15: with the key configured and all eight provider calls succeeding,
\* now_playing issues calls for the first 8 titles of the popular list only and
\* returns exactly their normalized records, in that list's order.
C15_NowPlayingFirstEightOfPopular ==
    (ListDone("now_playing") /\ ~KeyNotConfigured) =>
        /\ Len(cCalls) = 8
        /\ \A i \in 1..8 :
              cCalls[i] = [t |-> Txt(MOVIE_LISTS.popular[i]), type |-> "movie"]
        /\ Len(cHttp) = 8
        /\ AllAnswersSucceeded =>
              /\ cRes.status = 200
              /\ Len(cRes.body.movies) = 8
              /\ \A i \in 1..8 :
                    /\ cRes.body.movies[i] = FormatMovie(cHttp[i].data)
                    /\ cRes.body.movies[i].title = Txt(MOVIE_LISTS.popular[i])

\* now_playing has answered with eight records after eight successful calls
C15_Witness ==
    /\ ListDone("now_playing")
    /\ ~KeyNotConfigured
    /\ AllAnswersSucceeded
    /\ Len(cCalls) = 8
    /\ cRes.status = 200
    /\ Len(cRes.body.movies) = 8
    /\ cRes.body.movies[8].title = Txt("Forrest Gump")

\* C16: with the key configured, each list endpoint answers success true,
\* page 1, totalPages 1 and totalResults equal to the length of movies,
\* whichever of its provider calls fail, all of them included; with the key
\* unconfigured the request fails as a whole.
C16_ListEnvelope ==
    (CatalogDone /\ cReq.op = "list") =>
        IF KeyNotConfigured
        THEN cRes.status = 500 /\ ~cRes.body.success
        ELSE /\ cRes.status = 200
             /\ cRes.body.success
             /\ cRes.body.page = 1
             /\ cRes.body.totalPages = 1
             /\ cRes.body.totalResults = Len(cRes.body.movies)

\* a list has answered 200 with no movie after every one of its calls failed
C16_Witness ==
    /\ CatalogDone
    /\ cReq.op = "list"
    /\ cReq.name = "top_rated"
    /\ Len(cHttp) = 16
    /\ \A i \in DOMAIN cHttp : cHttp[i] = TransportFailure
    /\ cRes.status = 200
    /\ cRes.body.movies = <<>>
    /\ cRes.body.totalResults = 0

(***************************************************************************)
(* search (SpecCatalog).                                                   *)
(***************************************************************************)
\* the text search of the request has returned a page with a list of hits
TextSearchReturnedHits ==
    /\ cReq.op = "search"
    /\ cHttp # <<>>
    /\ cHttp[1] # TransportFailure
    /\ cHttp[1].data.Response # Txt("False")
    /\ cHttp[1].data.Search.t = "array"

\* the provider's hits, and the answers to the detail calls
ProviderHits == cHttp[1].data.Search.v

DetailAnswers == SubSeq(cHttp, 2, Len(cHttp))

\* the provider call did not fail: no transport failure, no error flag
CallReturned(answer) ==
    answer # TransportFailure /\ answer.data.Response # Txt("False")

FirstEight(n) == IF n < 8 THEN n ELSE 8

ReportedTotal == cHttp[1].data.totalResults

IsDigits(x) ==
    /\ x.t = "string"
    /\ x.v # <<>>
    /\ \A i \in DOMAIN x.v : x.v[i] \in Digits

\* C18: in a successful search response totalResults is the total the provider
\* reported (0 when it reported none) and totalPages is the ceiling of that
\* total divided by 10, whatever the number of movies in the response.
C18_TotalsFromProvider ==
    (cReq.op = "search" /\ CatalogDone /\ cRes.status = 200) =>
        /\ ReportedTotal = Undefined =>
              /\ cRes.body.totalResults = Num(0)
              /\ cRes.body.totalPages = Num(0)
        /\ IsDigits(ReportedTotal) =>
              LET total == DecimalValue(ReportedTotal.v)
              IN  /\ cRes.body.totalResults = Num(total)
                  /\ cRes.body.totalPages.t = "number"
                  /\ 10 * cRes.body.totalPages.v >= total
                  /\ 10 * (cRes.body.totalPages.v - 1) < total

\* a response reports 25 results on 3 pages and carries 8 movies
C18_Witness ==
    /\ cReq.op = "search"
    /\ CatalogDone
    /\ cRes.status = 200
    /\ ReportedTotal = Str(<<"2", "5">>)
    /\ cRes.body.totalResults = Num(25)
    /\ cRes.body.totalPages = Num(3)
    /\ Len(cRes.body.movies) = 8

(***************************************************************************)
(* detail (SpecCatalog).                                                   *)
(***************************************************************************)
DetailDone == CatalogDone /\ cReq.op = "detail" /\ ~KeyNotConfigured

\* C19: for detail(id) with the key configured, every failure of the provider
\* call, the provider's error flag as well as a transport failure, is answered
\* 500 with the fixed message 'Failed to fetch movie details' and nothing else:
\* the answer is the same for both causes and has none of the provider's text.
C19_DetailFailureGeneric500 ==
    (DetailDone /\ ~CallReturned(cHttp[1])) =>
        /\ cRes.status = 500
        /\ cRes.body = [success |-> FALSE, message |-> "Failed to fetch movie details"]

\* a detail request has been answered 500 after the provider reported not found
C19_Witness ==
    /\ DetailDone
    /\ cHttp = <<Http(NotFound)>>
    /\ cCalls = <<[i |-> Txt("tt1")]>>
    /\ cRes.status = 500
    /\ cRes.body.message = "Failed to fetch movie details"

\* C20: when the provider answers a detail(id) call with a payload that has no
\* error flag and no title, the detail endpoint answers 500 with a generic
\* message, not a success envelope.
C20_UntitledDetail500 ==
    (DetailDone /\ CallReturned(cHttp[1]) /\ Falsy(cHttp[1].data.Title)) =>
        /\ cRes.status = 500
        /\ ~cRes.body.success

(***************************************************************************)
(* Store failures and the life of a row (SpecAuth).                        *)
(***************************************************************************)
\* a store statement of the request in slot s has failed
StoreStatementFailed(s) == Done(s) /\ areq[s].err # "none"

GenericFailureMessage(s) ==
    IF IsRegister(s) THEN "Internal server error during registration"
    ELSE "Internal server error during login"

\* C21: when a store statement of a register or login request fails (the
\* uniqueness lookup, the insert or the login select), the request is answered
\* 500 with a body of success false and the fixed message of its endpoint, and
\* nothing else: no text of the error reaches the answer.
C21_StoreFailureGeneric500 ==
    \A s \in Slots :
        StoreStatementFailed(s) =>
            /\ areq[s].res.status = 500
            /\ areq[s].res.body =
                  [success |-> FALSE, message |-> GenericFailureMessage(s)]

\* a register whose insert failed and a login whose select failed have both
\* been answered 500
C21_Witness ==
    \E s, t \in Slots :
        /\ IsRegister(s) /\ StoreStatementFailed(s)
        /\ areq[s].stmts = <<"SELECT", "INSERT">>
        /\ areq[s].err = "STORE_FAILURE"
        /\ areq[s].res.status = 500
        /\ IsLogin(t) /\ StoreStatementFailed(t)
        /\ areq[t].res.status = 500

\* the rows of the table are the first rows of the table after the step
RowsKept == Len(users) <= Len(users') /\ SubSeq(users', 1, Len(users)) = users

\* the step answers a register request with 201
Answers201 ==
    \E s \in Slots :
        /\ areq[s].pc = "insert"
        /\ areq'[s].pc = "done"
        /\ areq'[s].res.status = 201

\* the step is a step of a login request
LoginStep == \E s \in Slots : areq'[s] # areq[s] /\ "login" \in {areq[s].kind, areq'[s].kind}

C22_Step ==
    /\ RowsKept
    /\ LoginStep => users' = users
    /\ users' # users => Len(users') = Len(users) + 1 /\ Answers201
    /\ Answers201 => Len(users') = Len(users) + 1

\* C22: across every sequence of register and login requests a row once
\* inserted is never modified or removed: a login step leaves the table
\* unchanged, and register changes the table only by adding one row, exactly
\* when it answers 201.
C22_RowsNeverModified == [][C22_Step]_vars

\* two accounts exist, and a login has been answered 200 for one of them
C22_Witness ==
    /\ Len(users) = 2
    /\ \E s \in Slots : IsLogin(s) /\ Done(s) /\ areq[s].res.status = 200

(***************************************************************************)
(* The joint wait of fetchMoviesByTitles (SpecBatch).                      *)
(***************************************************************************)
BatchOver == bPc \in {"returned", "threw"}

EveryCallSettled == \A i \in DOMAIN bPromise : bPromise[i].st # "pending"

Listening == sPc = "listening"

C24_State ==
    /\ Listening => sConn = "ok"
    /\ sConn = "failed" => sPc = "exited" /\ sExit = 1
    /\ (\E s \in Slots : areq[s].pc # "idle") => Listening

\* an exited process takes no further step
C24_Step == sPc = "exited" => sPc' = "exited" /\ UNCHANGED authVars

\* C24: the server listens, and so serves requests, only after the store
\* connectivity test has succeeded; when the test fails the process exits with
\* code 1 and never reaches the listening state.
C24_ListenOnlyAfterConnectivity == [] C24_State /\ [][C24_Step]_vars

\* the server listens after a successful test and has answered a registration
C24_Witness ==
    /\ Listening
    /\ sConn = "ok"
    /\ Done(1)
    /\ areq[1].res.status = 201

\* C25: a failure of initDatabase does not abort the bootstrap: the process
\* does not exit and the server listens; requests are then served although
\* the users table may not exist, every store statement failing with a 500.
C25_InitFailureSwallowed ==
    /\ sInit = "failed" => Listening /\ sExit = Null
    /\ ~sTable =>
          /\ users = <<>>
          /\ \A s \in Slots :
                (Done(s) /\ areq[s].stmts # <<>>) => areq[s].res.status = 500

\* initDatabase failed, the table does not exist, the server listens and has
\* answered a login with 500
C25_Witness ==
    /\ sInit = "failed"
    /\ ~sTable
    /\ Listening
    /\ IsLogin(1)
    /\ Done(1)
    /\ areq[1].stmts = <<"SELECT">>
    /\ areq[1].res.status = 500

\* the text search of the request has settled with a failure
TextSearchFailed ==
    /\ cReq.op = "search"
    /\ cHttp # <<>>
    /\ ~CallReturned(cHttp[1])

\* C26: when the text search of a search request fails (a transport failure,
\* or the provider's error flag, which is also how it reports no match), the
\* request is answered 500 'Failed to search movies' and no detail call is
\* issued; a success answer, with an empty movies array in particular, occurs
\* only when the text search itself succeeded.
C26_TextSearchFailure500 ==
    /\ TextSearchFailed =>
          /\ CatalogDone
          /\ cRes.status = 500
          /\ cRes.body = [success |-> FALSE, message |-> "Failed to search movies"]
          /\ Len(cCalls) = 1
          /\ Len(cHttp) = 1
    /\ (cReq.op = "search" /\ CatalogDone /\ cRes.status = 200) =>
          /\ cHttp # <<>>
          /\ CallReturned(cHttp[1])

\* the provider reported no match and the search was answered 500 after its
\* single call
C26_Witness ==
    /\ TextSearchFailed
    /\ CatalogDone
    /\ cHttp = <<Http(NotFound)>>
    /\ Len(cCalls) = 1
    /\ cRes.status = 500

(***************************************************************************)
(* The client's initApp (SpecClient).                                      *)
(***************************************************************************)
HealthChecks == Len(kResults) + (IF kPc = "checking" THEN 1 ELSE 0)

FailedChecks == Cardinality({i \in DOMAIN kResults : ~CheckAPIHealth(kResults[i])})

LoadStarted == \E n \in LoaderNames : kLoads[n] # "none"

\* C27: initApp issues at most 3 health checks and none after the first
\* healthy result; it waits only after a failed check that is not the third;
\* it starts loading the lists only if a check succeeded; after 3 failed checks
\* it shows the connection error and loads no list.
C27_AtMostThreeHealthChecks ==
    /\ HealthChecks <= 3
    /\ \A i \in DOMAIN kResults :
          CheckAPIHealth(kResults[i]) => i = Len(kResults) /\ kPc \notin {"checking", "sleeping"}
    /\ kSleeps = (IF FailedChecks < 2 THEN FailedChecks ELSE 2)
    /\ kPc = "sleeping" => FailedChecks = Len(kResults) /\ FailedChecks < 3
    /\ LoadStarted =>
          /\ kResults # <<>>
          /\ CheckAPIHealth(kResults[Len(kResults)])
          /\ kError = Null
    /\ FailedChecks = 3 =>
          /\ kPc = "done"
          /\ kError = CONNECTION_ERROR
          /\ ~LoadStarted
    /\ kError # Null => FailedChecks = 3

\* three checks have failed after two waits; the error is shown, nothing loaded
C27_Witness ==
    /\ Len(kResults) = 3
    /\ FailedChecks = 3
    /\ kSleeps = 2
    /\ kPc = "done"
    /\ kError = CONNECTION_ERROR
    /\ ~LoadStarted

(***************************************************************************)
(* One answer per request (FairServe).                                     *)
(***************************************************************************)
CatalogInFlight == cPc # "idle"

AccountInFlight == areq[1].pc # "idle"

\* a request has an answer exactly when its handler has ended: none while a
\* provider call or a store statement of it is outstanding
C28_State ==
    /\ CatalogInFlight => (cRes # Null <=> CatalogDone)
    /\ AccountInFlight => (areq[1].res # Null <=> Done(1))

\* an answer once written is not followed by another for the same request
C28_Step ==
    /\ cRes # Null => cRes' = cRes \/ cPc' = "idle"
    /\ areq[1].res # Null => areq'[1].res = areq[1].res \/ areq'[1].pc = "idle"

\* C28: provided every provider call and store statement issued for a request
\* eventually settles, every catalog and account request eventually receives
\* exactly one answer: none before its calls have settled, one then, and never
\* a second.
C28_ExactlyOneResponse ==
    /\ [] C28_State
    /\ [][C28_Step]_vars
    /\ CatalogInFlight ~> (CatalogDone /\ cRes # Null)
    /\ AccountInFlight ~> (Done(1) /\ areq[1].res # Null)

\* a search has been answered after its text search and eight detail calls
C28_Witness ==
    /\ CatalogDone
    /\ cReq.op = "search"
    /\ Len(cHttp) = 9
    /\ cRes # Null
    /\ cRes.status = 200

====
